---- MODULE Spec2Model ----
(***************************************************************************)
(* Model of src/alpha_entry.py: the bracketed order placement pipeline     *)
(* (place_optimal_limit_order), the retry wrapper (api_call_with_retry)    *)
(* and the command entry point (__main__).                                 *)
(*                                                                         *)
(* Representation of values:                                               *)
(*   - a Python str that the code inspects (direction) is a sequence of    *)
(*     one-character strings, so that lower() and upper() are computed;    *)
(*   - a response of a client call is a record: [kind |-> "None"] is       *)
(*     Python's None, [kind |-> "dict", ...] a decoded JSON object that    *)
(*     carries the 'data' key only when the venue served the request;      *)
(*   - money values (balance, price, tick) are integers counting tenths,   *)
(*     quantities (step, size) are integers counting thousandths.          *)
(***************************************************************************)
EXTENDS Integers, Sequences, FiniteSets, TLC

VARIABLES
    argv,           \* sys.argv: [argc, parseable, symbol, direction, leverage, tp_percent, sl_percent]
    market,         \* what the venue holds during the run: [balance, lastPrice]
    quant,          \* one application of (value // granularity) * granularity
    pc,             \* position of the single thread of control
    act,            \* the current (or last) activation of api_call_with_retry
    api,            \* what the wrapped client method did during that activation
    called,         \* endpoints of the client that received at least one request
    direct,         \* endpoints requested outside api_call_with_retry
    submitted,      \* order kinds with a create_order_v3 request sent (api.calls counts them)
    accepted,       \* per order kind: requests the venue accepted (venue side)
    completed,      \* statements of place_optimal_limit_order that ran to their end
    orders,         \* per order kind: the keyword arguments of its request
    account_data,   \* local of place_optimal_limit_order
    tick_size,      \* local of place_optimal_limit_order
    step_size,      \* local of place_optimal_limit_order
    current_price,  \* local of place_optimal_limit_order
    position_size,  \* local of place_optimal_limit_order
    tp_price,       \* local of place_optimal_limit_order
    sl_price,       \* local of place_optimal_limit_order
    error,          \* the exception that ended place_optimal_limit_order, or "none"
    error_logged,   \* logging.error was called by the top-level handler
    exit_code       \* exit status of the process, -1 while it runs

inputs  == <<argv, market, quant>>
fetched == <<account_data, tick_size, step_size, current_price>>
planned == <<position_size, tp_price, sl_price>>
venue   == <<called, direct, submitted, accepted, orders>>
outcome == <<error, error_logged, exit_code>>
vars    == <<inputs, pc, completed, act, api, venue, fetched, planned, outcome>>

----------------------------------------------------------------------------
(* Program constants *)

\* one attempt more than the code allows
max_retries_plus_one  == 5 + 1
\* one argument more than the script takes
ExpectedArgc_plus_one == 6 + 1

max_retries       == 5      \* api_call_with_retry: max_retries
backoff_factor_ms == 500    \* api_call_with_retry: backoff_factor = 0.5 s, in ms
ExpectedArgc      == 6      \* __main__: len(sys.argv) != 6

(* Bounds of the model *)

MaxArgc      == 7           \* len(sys.argv) ranges over 1..MaxArgc
MaxContracts == 2           \* longest perpetualContract list served by configs_v3

----------------------------------------------------------------------------
(* Strings: str.lower() and str.upper() on the characters the inputs use *)

LowerOf == ("B" :> "b") @@ ("U" :> "u") @@ ("Y" :> "y") @@ ("S" :> "s")
           @@ ("E" :> "e") @@ ("L" :> "l") @@ ("H" :> "h") @@ ("O" :> "o")
           @@ ("R" :> "r") @@ ("T" :> "t")
UpperOf == ("b" :> "B") @@ ("u" :> "U") @@ ("y" :> "Y") @@ ("s" :> "S")
           @@ ("e" :> "E") @@ ("l" :> "L") @@ ("h" :> "H") @@ ("o" :> "O")
           @@ ("r" :> "R") @@ ("t" :> "T")

\* a side sent as the caller typed it
upper_verbatim(s) == s

lower(s) == [i \in 1..Len(s) |-> IF s[i] \in DOMAIN LowerOf THEN LowerOf[s[i]] ELSE s[i]]
upper(s) == [i \in 1..Len(s) |-> IF s[i] \in DOMAIN UpperOf THEN UpperOf[s[i]] ELSE s[i]]

buy   == <<"b", "u", "y">>
sell  == <<"s", "e", "l", "l">>
BUY   == <<"B", "U", "Y">>
SELL  == <<"S", "E", "L", "L">>

Directions == { buy, BUY, <<"B", "u", "y">>,
                sell, SELL, <<"s", "E", "l", "L">>,
                <<"s", "h", "o", "r", "t">>, <<"b", "u", "y", "s">> }

Symbols      == {"BTC-USDT", "ETH-USDT"}
Leverages    == {10}
TpPercents   == {5}
SlPercents   == {2}

(* Values the remote venue serves; money in tenths, quantities in thousandths *)
Balances     == {1000}      \* availableBalance 100.0
Prices       == {50000, 0}  \* lastPrice 5000.0, and a degenerate quote of 0
Markets      == [balance : Balances, lastPrice : Prices]
Contract(sym) == [symbol |-> sym,
                  tickSize |-> IF sym = "BTC-USDT" THEN 5 ELSE 1,
                  stepSize |-> IF sym = "BTC-USDT" THEN 1 ELSE 10]

----------------------------------------------------------------------------
(* Responses and outcomes of one invocation of a client method (api_func) *)

NoneResponse == [kind |-> "None"]
\* a decoded JSON object without the 'data' key: the venue refused the request
Rejection    == [kind |-> "dict", code |-> "rejected"]
Served(d)    == [kind |-> "dict", data |-> d]

Returns(resp) == [exc |-> "none", resp |-> resp]
Raises(e)     == [exc |-> e, resp |-> NoneResponse]

\* what any client method may do besides serving the request
Faults == { Returns(NoneResponse), Returns(Rejection),
            Raises("RequestException"), Raises("ValueError"), Raises("ApiError") }

SeqsUpTo(S, n) == UNION { [1..k -> S] : k \in 0..n }

AccountResults == Faults \cup { Returns(Served([availableBalance |-> market.balance])) }
ConfigResults  == Faults
                  \cup { Returns(Served([contractConfig |-> [perpetualContract |-> l]])) :
                           l \in SeqsUpTo({Contract(sym) : sym \in Symbols}, MaxContracts) }
TickerResults  == Faults
                  \cup { Returns([kind |-> "dict", data |-> <<>>]) }
                  \cup { Returns([kind |-> "dict", data |-> <<[lastPrice |-> market.lastPrice]>>]) }
OrderResults   == Faults \cup { Returns(Served([orderId |-> "id"])) }
\* get_account_v3: its return value is never read
GetAccountResults == Faults \cup { Returns(Served([id |-> "account"])) }

HasData(resp) == resp.kind = "dict" /\ "data" \in DOMAIN resp

----------------------------------------------------------------------------
(* api_call_with_retry *)

\* an except clause that catches every exception of the client
Caught_any(r) ==
    \/ r.exc # "none"
    \/ r.exc = "none" /\ r.resp.kind = "None"

\* the failures the except clause catches: the listed exception classes, and
\* the ValueError the wrapper itself raises for a None response
Caught(r) ==
    \/ r.exc \in {"RequestException", "ValueError"}
    \/ r.exc = "none" /\ r.resp.kind = "None"

\* a wait that does not grow with the attempt
backoff_constant(attempt) == backoff_factor_ms

\* time.sleep(backoff_factor * (2 ** attempt)), in milliseconds
backoff(attempt) == backoff_factor_ms * 2^attempt

NewActivation(func) ==
    [func |-> func, attempt |-> 0, warnings |-> 0, waits |-> <<>>,
     status |-> "running", result |-> NoneResponse]

\* the iteration that returns a None response as it is
retry_iteration_unchecked(a, r) ==
    IF r.exc = "none"
    THEN [a EXCEPT !.status = "returned", !.result = r.resp]
    ELSE IF r.exc \in {"RequestException", "ValueError"}
    THEN LET a2 == [a EXCEPT !.warnings = @ + 1,
                             !.waits = Append(@, backoff_factor_ms * 2^a.attempt)] IN
         IF a.attempt + 1 < max_retries
         THEN [a2 EXCEPT !.attempt = @ + 1]
         ELSE [a2 EXCEPT !.status = "exhausted"]
    ELSE [a EXCEPT !.status = "raised"]

\* one iteration of the for loop, api_func behaving as r; the iteration that
\* fails with attempt = max_retries - 1 leaves the loop and raises
retry_iteration(a, r) ==
    IF r.exc = "none" /\ r.resp.kind # "None"
    THEN [a EXCEPT !.status = "returned", !.result = r.resp]
    ELSE IF Caught(r)
    THEN LET a2 == [a EXCEPT !.warnings = @ + 1,
                             !.waits = Append(@, backoff(a.attempt))] IN
         IF a.attempt + 1 < max_retries
         THEN [a2 EXCEPT !.attempt = @ + 1]
         ELSE [a2 EXCEPT !.status = "exhausted"]
    ELSE [a EXCEPT !.status = "raised"]

\* the exception api_call_with_retry ends with, "none" when it returns or goes on
retry_exception(a, r) ==
    CASE a.status = "exhausted" -> "RetriesExhausted"
      [] a.status = "raised"    -> r.exc
      [] OTHER                  -> "none"

----------------------------------------------------------------------------
(* The pure parts of the pipeline *)

\* a quotient rounded away from zero
TruncDiv_away(a, b) ==
    LET x == IF a >= 0 THEN a ELSE -a
        y == IF b > 0 THEN b ELSE -b
        q == (x + y - 1) \div y
    IN IF (a >= 0) = (b > 0) THEN q ELSE -q

\* Decimal's // truncates the quotient toward zero
TruncDiv(a, b) ==
    IF (a >= 0) = (b > 0) THEN (IF a >= 0 THEN a ELSE -a) \div (IF b > 0 THEN b ELSE -b)
    ELSE -((IF a >= 0 THEN a ELSE -a) \div (IF b > 0 THEN b ELSE -b))

\* the quantization with the quotient rounded toward minus infinity
quantize_floor(value, granularity) ==
    (IF value >= 0 \/ value % granularity = 0 THEN TruncDiv(value, granularity)
     ELSE TruncDiv(value, granularity) - 1) * granularity

\* (value // granularity) * granularity, both counted in the same unit
quantize(value, granularity) == TruncDiv(value, granularity) * granularity

NoQuant == [value |-> 0, granularity |-> 1, result |-> 0, applied |-> FALSE]

\* a * m / b truncated toward zero, for m > 0, without forming a * m
MulDivTrunc(a, m, b) ==
    LET x == IF a >= 0 THEN a ELSE -a
        y == IF b > 0 THEN b ELSE -b
        q == (x \div y) * m + ((x % y) * m) \div y
    IN IF (a >= 0) = (b > 0) THEN q ELSE -q

\* the sizing with the leverage taken as the multiplier itself, not times 100
calculate_position_size_unscaled(data, leverage, price, step) ==
    IF ~HasData(data) \/ "availableBalance" \notin DOMAIN data.data
    THEN [exc |-> "KeyError", value |-> 0]
    ELSE IF price = 0 \/ step = 0
    THEN [exc |-> "DivisionByZero", value |-> 0]
    ELSE [exc |-> "none",
          value |-> quantize(MulDivTrunc(data.data.availableBalance * leverage,
                                         1000, price), step)]

\* the sizing with a size of zero refused
calculate_position_size_refusing_zero(data, leverage, price, step) ==
    IF ~HasData(data) \/ "availableBalance" \notin DOMAIN data.data
    THEN [exc |-> "KeyError", value |-> 0]
    ELSE IF price = 0 \/ step = 0
    THEN [exc |-> "DivisionByZero", value |-> 0]
    ELSE IF quantize(MulDivTrunc(data.data.availableBalance * leverage * 100,
                                 1000, price), step) = 0
    THEN [exc |-> "ZeroSize", value |-> 0]
    ELSE [exc |-> "none",
          value |-> quantize(MulDivTrunc(data.data.availableBalance * leverage * 100,
                                         1000, price), step)]

\* [exc, value]: position size in thousandths; the balance and the price are
\* in tenths, so their ratio is the ratio of the amounts. The quotient of line
\* 46 is carried in thousandths: its digits below a thousandth do not change
\* the quotient by step, which is a whole number of thousandths
calculate_position_size(data, leverage, price, step) ==
    IF ~HasData(data) \/ "availableBalance" \notin DOMAIN data.data
    THEN [exc |-> "KeyError", value |-> 0]
    ELSE LET available_margin == data.data.availableBalance
             real_leverage    == leverage * 100
         IN IF price = 0 \/ step = 0
            THEN [exc |-> "DivisionByZero", value |-> 0]
            ELSE [exc |-> "none",
                  value |-> quantize(MulDivTrunc(available_margin * real_leverage,
                                                 1000, price), step)]

\* [exc, tick_size, step_size] from the response of configs_v3
fetch_tick_and_step_size(response, symbol) ==
    LET failed(e) == [exc |-> e, tick_size |-> 0, step_size |-> 0] IN
    IF ~HasData(response) THEN failed("ConfigError")
    ELSE LET contract_config ==
                 IF "contractConfig" \in DOMAIN response.data
                 THEN response.data.contractConfig ELSE [none |-> TRUE]
             perpetual_contracts ==
                 IF "perpetualContract" \in DOMAIN contract_config
                 THEN contract_config.perpetualContract ELSE <<>>
             matches == { i \in 1..Len(perpetual_contracts) :
                            perpetual_contracts[i].symbol = symbol }
         IN IF perpetual_contracts = <<>> THEN failed("NoContracts")
            ELSE IF matches = {} THEN failed("SymbolNotFound")
            ELSE LET first == CHOOSE i \in matches : \A j \in matches : i <= j
                     symbol_data == perpetual_contracts[first]
                 IN [exc |-> "none", tick_size |-> symbol_data.tickSize,
                     step_size |-> symbol_data.stepSize]

\* [exc, value] from the response of ticker_v3
fetch_current_price(ticker) ==
    IF ~HasData(ticker) THEN [exc |-> "KeyError", value |-> 0]
    ELSE IF Len(ticker.data) = 0 THEN [exc |-> "IndexError", value |-> 0]
    ELSE [exc |-> "none", value |-> ticker.data[1].lastPrice]

\* the trigger prices with the offsets of a buy applied to a sell as well
bracket_prices_buy_offsets(direction, price, tp_percent, sl_percent, tick) ==
    LET quantized(numerator) == TruncDiv(quantize(numerator, 100 * tick), 100)
    IN
    IF lower(direction) \notin {buy, sell}
    THEN [exc |-> "InvalidDirection", tp_price |-> 0, sl_price |-> 0]
    ELSE IF tick = 0 THEN [exc |-> "DivisionByZero", tp_price |-> 0, sl_price |-> 0]
    ELSE [exc |-> "none", tp_price |-> quantized(price * (100 + tp_percent)),
                          sl_price |-> quantized(price * (100 - sl_percent))]

\* [exc, tp_price, sl_price] in tenths: the percentage offsets of the price,
\* then (p // tick_size) * tick_size, computed in hundredths of a tenth
bracket_prices(direction, price, tp_percent, sl_percent, tick) ==
    LET quantized(numerator) == TruncDiv(quantize(numerator, 100 * tick), 100)
        failed(e) == [exc |-> e, tp_price |-> 0, sl_price |-> 0]
    IN
    IF lower(direction) \notin {buy, sell} THEN failed("InvalidDirection")
    ELSE IF tick = 0 THEN failed("DivisionByZero")
    ELSE IF lower(direction) = buy
    THEN [exc |-> "none", tp_price |-> quantized(price * (100 + tp_percent)),
                          sl_price |-> quantized(price * (100 - sl_percent))]
    ELSE [exc |-> "none", tp_price |-> quantized(price * (100 - tp_percent)),
                          sl_price |-> quantized(price * (100 + sl_percent))]

----------------------------------------------------------------------------
(* The order requests: the keyword arguments of create_order_v3 *)

OrderKinds == {"initial_order", "stop_order", "tp_order"}
NoRequest  == [type |-> "none"]

opposite_side(direction) == IF lower(direction) = buy THEN SELL ELSE BUY

initial_order_request ==
    [symbol |-> argv.symbol, side |-> upper(argv.direction), type |-> "MARKET",
     size |-> position_size, price |-> current_price,
     timeInForce |-> "GOOD_TIL_CANCEL"]

\* the stop-loss request triggered at the take-profit price
stop_order_request_tp_trigger ==
    [symbol |-> argv.symbol, side |-> opposite_side(argv.direction),
     isPositionTpsl |-> TRUE, reduceOnly |-> TRUE, type |-> "STOP_MARKET",
     size |-> position_size, price |-> sl_price,
     timeInForce |-> "GOOD_TIL_CANCEL", triggerPriceType |-> "INDEX",
     triggerPrice |-> tp_price]

stop_order_request ==
    [symbol |-> argv.symbol, side |-> opposite_side(argv.direction),
     isPositionTpsl |-> TRUE, reduceOnly |-> TRUE, type |-> "STOP_MARKET",
     size |-> position_size, price |-> sl_price,
     timeInForce |-> "GOOD_TIL_CANCEL", triggerPriceType |-> "INDEX",
     triggerPrice |-> sl_price]

tp_order_request ==
    [symbol |-> argv.symbol, side |-> opposite_side(argv.direction),
     isPositionTpsl |-> TRUE, reduceOnly |-> TRUE, type |-> "TAKE_PROFIT_MARKET",
     size |-> position_size, price |-> tp_price,
     timeInForce |-> "GOOD_TIL_CANCEL", triggerPriceType |-> "INDEX",
     triggerPrice |-> tp_price]

----------------------------------------------------------------------------
(* The state machine *)

Endpoint(func) ==
    CASE func = "fetch_account_data"       -> "get_account_balance_v3"
      [] func = "fetch_tick_and_step_size" -> "configs_v3"
      [] func = "fetch_current_price"      -> "ticker_v3"
      [] func \in OrderKinds               -> "create_order_v3"
      [] OTHER                             -> func

NoProbe(func) == [func |-> func, calls |-> 0, transient |-> 0, other |-> 0,
                  last |-> Returns(NoneResponse)]

\* nothing has been called, planned or sent, and nothing has failed
Unstarted ==
    /\ act = [NewActivation("none") EXCEPT !.status = "idle"]
    /\ api = NoProbe("none")
    /\ called = {}
    /\ direct = {}
    /\ submitted = {}
    /\ accepted = [k \in OrderKinds |-> 0]
    /\ orders = [k \in OrderKinds |-> NoRequest]
    /\ position_size = 0
    /\ tp_price = 0
    /\ sl_price = 0
    /\ error = "none"
    /\ error_logged = FALSE
    /\ exit_code = -1

\* the script starts: nothing fetched yet
AtMain ==
    /\ quant = NoQuant
    /\ pc = "main"
    /\ completed = {}
    /\ account_data = NoneResponse
    /\ tick_size = 0
    /\ step_size = 0
    /\ current_price = 0
    /\ Unstarted

Init ==
    /\ argv \in [argc : 1..MaxArgc, parseable : BOOLEAN, symbol : {"BTC-USDT"},
                 direction : Directions, leverage : Leverages,
                 tp_percent : TpPercents, sl_percent : SlPercents]
    /\ market \in Markets
    /\ AtMain

\* the statement order with the stop order placed before the entry order
after_stop_first(step) ==
    CASE step = "get_account_v3"           -> "fetch_account_data"
      [] step = "fetch_account_data"       -> "fetch_tick_and_step_size"
      [] step = "fetch_tick_and_step_size" -> "fetch_current_price"
      [] step = "fetch_current_price"      -> "calculate_position_size"
      [] step = "calculate_position_size"  -> "stop_order"
      [] step = "stop_order"               -> "initial_order"
      [] step = "initial_order"            -> "tp_order"
      [] step = "tp_order"                 -> "return"

\* the statement order of place_optimal_limit_order
after(step) ==
    CASE step = "get_account_v3"           -> "fetch_account_data"
      [] step = "fetch_account_data"       -> "fetch_tick_and_step_size"
      [] step = "fetch_tick_and_step_size" -> "fetch_current_price"
      [] step = "fetch_current_price"      -> "calculate_position_size"
      [] step = "calculate_position_size"  -> "initial_order"
      [] step = "initial_order"            -> "stop_order"
      [] step = "stop_order"               -> "tp_order"
      [] step = "tp_order"                 -> "return"

\* a statement ran to its end: control moves to the next one
Completes(step) ==
    /\ completed' = completed \cup {step}
    /\ pc' = after(step)

\* the process ends: sys.exit(code), or the end of the script
Exit(code) == pc' = "exited" /\ exit_code' = code

\* an exception e leaves place_optimal_limit_order: the handler of __main__
\* logs it, and the script ends
except_handler(e) ==
    /\ error' = e
    /\ error_logged' = TRUE
    /\ Exit(0)

\* __main__ up to the call of place_optimal_limit_order
Main ==
    /\ pc = "main"
    /\ IF argv.argc # ExpectedArgc
       THEN Exit(1)                     \* usage message, sys.exit(1)
       ELSE IF ~argv.parseable
       THEN Exit(1)                     \* decimal.Decimal raises outside the try
       ELSE pc' = "get_account_v3" /\ UNCHANGED exit_code
    /\ UNCHANGED <<inputs, completed, act, api, venue, fetched, planned, error, error_logged>>

\* accountData = private_client.get_account_v3(): called outside the wrapper,
\* its value is never read
GetAccountV3 ==
    /\ pc = "get_account_v3"
    /\ \E r \in GetAccountResults :
         /\ called' = called \cup {"get_account_v3"}
         /\ direct' = direct \cup {"get_account_v3"}
         /\ api' = [NoProbe("get_account_v3") EXCEPT !.calls = 1, !.last = r]
         /\ IF r.exc # "none"
            THEN except_handler(r.exc) /\ UNCHANGED completed
            ELSE Completes("get_account_v3") /\ UNCHANGED outcome
    /\ UNCHANGED <<inputs, act, submitted, accepted, orders, fetched, planned>>

\* the transient failures of the design: a transport fault, an empty response
Transient(r) ==
    \/ r.exc = "RequestException"
    \/ r.exc = "none" /\ r.resp.kind = "None"

Observe(func, r) ==
    LET p == IF api.func = func THEN api ELSE NoProbe(func) IN
    [p EXCEPT !.calls = @ + 1,
              !.transient = @ + (IF Transient(r) THEN 1 ELSE 0),
              !.other = @ + (IF r.exc = "ValueError" THEN 1 ELSE 0),
              !.last = r]

\* one iteration of api_call_with_retry(func's client method), which behaves as r
Wrapped(func, r) ==
    /\ act' = retry_iteration(IF act.func = func THEN act ELSE NewActivation(func), r)
    /\ api' = Observe(func, r)
    /\ called' = called \cup {Endpoint(func)}
    /\ direct' = direct

\* account_balance_res = api_call_with_retry(private_client.get_account_balance_v3)
FetchAccountData ==
    /\ pc = "fetch_account_data"
    /\ \E r \in AccountResults :
         /\ Wrapped("fetch_account_data", r)
         /\ CASE act'.status = "running" ->
                   UNCHANGED <<pc, completed, account_data, outcome>>
              [] act'.status = "returned" ->
                   /\ account_data' = act'.result
                   /\ Completes("fetch_account_data")
                   /\ UNCHANGED outcome
              [] OTHER ->
                   /\ except_handler(retry_exception(act', r))
                   /\ UNCHANGED <<completed, account_data>>
    /\ UNCHANGED <<inputs, submitted, accepted, orders,
                   tick_size, step_size, current_price, planned>>

\* tick_size, step_size = fetch_tick_and_step_size(symbol)
FetchTickAndStepSize ==
    /\ pc = "fetch_tick_and_step_size"
    /\ \E r \in ConfigResults :
         /\ Wrapped("fetch_tick_and_step_size", r)
         /\ CASE act'.status = "running" ->
                   UNCHANGED <<pc, completed, tick_size, step_size, outcome>>
              [] act'.status = "returned" ->
                   LET res == fetch_tick_and_step_size(act'.result, argv.symbol) IN
                   IF res.exc # "none"
                   THEN except_handler(res.exc) /\ UNCHANGED <<completed, tick_size, step_size>>
                   ELSE /\ tick_size' = res.tick_size
                        /\ step_size' = res.step_size
                        /\ Completes("fetch_tick_and_step_size")
                        /\ UNCHANGED outcome
              [] OTHER ->
                   /\ except_handler(retry_exception(act', r))
                   /\ UNCHANGED <<completed, tick_size, step_size>>
    /\ UNCHANGED <<inputs, submitted, accepted, orders,
                   account_data, current_price, planned>>

\* current_price = fetch_current_price(symbol)
FetchCurrentPrice ==
    /\ pc = "fetch_current_price"
    /\ \E r \in TickerResults :
         /\ Wrapped("fetch_current_price", r)
         /\ CASE act'.status = "running" ->
                   UNCHANGED <<pc, completed, current_price, outcome>>
              [] act'.status = "returned" ->
                   LET res == fetch_current_price(act'.result) IN
                   IF res.exc # "none"
                   THEN except_handler(res.exc) /\ UNCHANGED <<completed, current_price>>
                   ELSE /\ current_price' = res.value
                        /\ Completes("fetch_current_price")
                        /\ UNCHANGED outcome
              [] OTHER ->
                   /\ except_handler(retry_exception(act', r))
                   /\ UNCHANGED <<completed, current_price>>
    /\ UNCHANGED <<inputs, submitted, accepted, orders,
                   account_data, tick_size, step_size, planned>>

\* position sizing, the direction branch and the quantization of the two
\* trigger prices (lines 76-88)
ComputePlan ==
    /\ pc = "calculate_position_size"
    /\ LET size   == calculate_position_size(account_data, argv.leverage,
                                             current_price, step_size)
           prices == bracket_prices(argv.direction, current_price,
                                    argv.tp_percent, argv.sl_percent, tick_size)
       IN IF size.exc # "none"
          THEN except_handler(size.exc) /\ UNCHANGED <<completed, planned>>
          ELSE IF prices.exc # "none"
          THEN /\ except_handler(prices.exc)
               /\ position_size' = size.value
               /\ UNCHANGED <<completed, tp_price, sl_price>>
          ELSE /\ position_size' = size.value
               /\ tp_price' = prices.tp_price
               /\ sl_price' = prices.sl_price
               /\ Completes("calculate_position_size")
               /\ UNCHANGED outcome
    /\ UNCHANGED <<inputs, act, api, venue, fetched>>

\* whether the venue took a request whose invocation ended as r: it did when it
\* acknowledged it, it did not when it refused it, and a request whose reply
\* was lost or unreadable may have been taken or not
VenueTook(r) ==
    IF r.exc = "none" /\ HasData(r.resp) THEN {TRUE}
    ELSE IF r.exc = "ApiError" \/ (r.exc = "none" /\ r.resp.kind = "dict") THEN {FALSE}
    ELSE BOOLEAN

\* kind = api_call_with_retry(private_client.create_order_v3, **request)
SubmitOrder(kind, request) ==
    /\ pc = kind
    /\ \E r \in OrderResults :
         /\ Wrapped(kind, r)
         /\ submitted' = submitted \cup {kind}
         /\ orders' = [orders EXCEPT ![kind] = request]
         /\ \E took \in VenueTook(r) :
              accepted' = [accepted EXCEPT ![kind] = @ + (IF took THEN 1 ELSE 0)]
         /\ CASE act'.status = "running" ->
                   UNCHANGED <<pc, completed, outcome>>
              [] act'.status = "returned" ->
                   /\ completed' = completed \cup {kind}
                   /\ IF after(kind) = "return"
                      THEN Exit(0) /\ UNCHANGED <<error, error_logged>>
                      ELSE pc' = after(kind) /\ UNCHANGED outcome
              [] OTHER ->
                   /\ except_handler(retry_exception(act', r))
                   /\ UNCHANGED completed
    /\ UNCHANGED <<inputs, fetched, planned>>

PlaceInitialOrder    == SubmitOrder("initial_order", initial_order_request)
PlaceStopOrder       == SubmitOrder("stop_order", stop_order_request)
PlaceTakeProfitOrder == SubmitOrder("tp_order", tp_order_request)

Next ==
    \/ Main
    \/ GetAccountV3
    \/ FetchAccountData
    \/ FetchTickAndStepSize
    \/ FetchCurrentPrice
    \/ ComputePlan
    \/ PlaceInitialOrder
    \/ PlaceStopOrder
    \/ PlaceTakeProfitOrder

Spec == Init /\ [][Next]_vars

----------------------------------------------------------------------------
(* Vocabulary of the properties *)

Reads   == {"fetch_account_data", "fetch_tick_and_step_size", "fetch_current_price"}
Aborted == error # "none"

\* this step sends a create_order_v3 request for the order kind k
Sending(k) == api' # api /\ api'.func = k

\* this step sends a request to the venue, whatever the endpoint
Requesting == api' # api

----------------------------------------------------------------------------
(* C1: order submissions respect the pipeline order. The entry order is sent
   only after the balance, the symbol spec and the quote were fetched, the
   stop order only after the entry submission returned, the take-profit order
   only after the stop submission returned, and no order is sent once the
   run is Aborted. *)
C1_PipelineOrder ==
    [][ /\ Sending("initial_order") => Reads \subseteq completed
        /\ Sending("stop_order")    => "initial_order" \in completed
        /\ Sending("tp_order")      => "stop_order" \in completed
        /\ Aborted => \A k \in OrderKinds : ~Sending(k) ]_vars

\* the three orders were sent in a run, the last one after a retry
C1_Witness ==
    /\ submitted = OrderKinds
    /\ "tp_order" \in completed
    /\ api.func = "tp_order" /\ api.calls > 1

\* the venue refused the request for good: a business-rule rejection, raised
\* by the client as a non-transport error or served as a JSON object that
\* carries the rejection instead of 'data'
PermanentlyRejected(r) ==
    \/ r.exc = "ApiError"
    \/ r.exc = "none" /\ r.resp.kind = "dict" /\ ~HasData(r.resp)

(* C2: when the venue permanently rejects the entry order, the entry
   submission is not retried and the run aborts: from then on no order
   request (no retry of the entry, no stop, no take-profit) is sent. *)
C2_EntryRejectionAborts ==
    [][ (api.func = "initial_order" /\ PermanentlyRejected(api.last))
          => (Aborted /\ \A k \in OrderKinds : ~Sending(k)) ]_vars

(* C3: when the entry submission was acknowledged and the venue then
   permanently rejects the stop order, the run is Aborted, the take-profit
   order is never sent and no other request (a cancel, a compensation) is
   made. *)
C3_StopRejectionAborts ==
    [][ ("initial_order" \in completed /\ api.func = "stop_order"
           /\ PermanentlyRejected(api.last))
          => (Aborted /\ ~Requesting) ]_vars

(* C4: each order is a one-shot write: once the venue accepted a request of
   an order kind, no request of that kind is sent again, so the venue
   accepts at most one order of each kind in a run. *)
C4_OneShotWrites ==
    [][ \A k \in OrderKinds :
          /\ accepted[k] >= 1 => ~Sending(k)
          /\ accepted'[k] <= 1 ]_vars

\* the wrapped client method succeeded: it returned a response that is not None
Succeeded(r) == r.exc = "none" /\ r.resp.kind # "None"

\* api describes the activation act of api_call_with_retry
InWrapper == api.func = act.func /\ api.calls > 0

(* C5: when the wrapped call fails transiently exactly k times (k < max_retries)
   and then succeeds, api_call_with_retry returns that successful response
   after exactly k + 1 attempts and k warnings; and it returns nothing but the
   successful response of its last attempt. *)
C5_TransientThenSuccess ==
    /\ (InWrapper /\ api.other = 0 /\ Succeeded(api.last)) =>
          /\ api.transient < max_retries
          /\ act.status = "returned"
          /\ act.result = api.last.resp
          /\ api.calls = api.transient + 1
          /\ act.warnings = api.transient
    /\ act.status = "returned" =>
          /\ InWrapper
          /\ Succeeded(api.last)
          /\ act.result = api.last.resp

\* a call returned after max_retries - 1 transient failures
C5_Witness ==
    /\ act.status = "returned"
    /\ InWrapper
    /\ api.other = 0
    /\ api.transient = max_retries - 1
    /\ api.calls = max_retries

(* C6: when the wrapped call fails transiently on every attempt,
   api_call_with_retry goes on until it has made exactly max_retries attempts
   and then raises the exhausted-retries failure; the successive waits are
   strictly increasing. *)
C6_AlwaysTransient ==
    /\ \A i, j \in 1..Len(act.waits) : i < j => act.waits[i] < act.waits[j]
    /\ (InWrapper /\ api.transient = api.calls) =>
          /\ api.calls <= max_retries
          /\ api.calls < max_retries => (act.status = "running" /\ ~Aborted)
          /\ api.calls = max_retries =>
                (act.status = "exhausted" /\ error = "RetriesExhausted")
    /\ act.status = "exhausted" =>
          (InWrapper /\ api.calls = max_retries /\ error = "RetriesExhausted")

\* max_retries transient failures in a row ended a call
C6_Witness ==
    /\ act.status = "exhausted"
    /\ api.transient = max_retries
    /\ Len(act.waits) >= 2

\* a remote step failed with a condition that is not classified transient
PermanentFailure ==
    \/ error \in {"ApiError", "ConfigError", "NoContracts", "SymbolNotFound", "IndexError"}
    \/ error = "KeyError" /\ "fetch_current_price" \notin completed

(* C7 as stated: when a remote step fails with a condition that is not
   classified transient, the underlying remote call has been attempted exactly
   once and no backoff wait occurred, the failure propagated at once, and a
   failed read leaves no order submitted. *)
C7_AttemptedExactlyOnce ==
    PermanentFailure =>
        /\ api.calls = 1
        /\ (InWrapper => act.waits = <<>>)
        /\ pc = "exited"
        /\ (api.func \in Reads \cup {"get_account_v3"} => submitted = {})

(* C7 as amended: a permanent failure causes zero retries. When a remote step
   fails with a condition that is not classified transient, the call is not
   attempted again: it has been attempted once more than the failures retried
   before it, every wait precedes an attempt, so none follows the failure,
   the failure propagated at once, and a failed read leaves no order
   submitted. A non-transport error of the client ends the wrapper at once. *)
C7_PermanentNotRetried ==
    /\ PermanentFailure =>
          /\ api.calls = api.transient + api.other + 1
          /\ (InWrapper => /\ Len(act.waits) = api.calls - 1
                           /\ act.warnings = api.calls - 1)
          /\ pc = "exited"
          /\ error_logged
          /\ (api.func \in Reads \cup {"get_account_v3"} => submitted = {})
    /\ (InWrapper /\ api.last.exc = "ApiError") =>
          (act.status = "raised" /\ error = "ApiError" /\ pc = "exited")

\* the symbol is absent from a list that was served after one retry
C7_Witness ==
    /\ error = "SymbolNotFound"
    /\ api.func = "fetch_tick_and_step_size"
    /\ api.calls = 2
    /\ submitted = {}

(* C8: every remote call of a run is made through api_call_with_retry, so
   that a transport fault of a remote call never ends the run by itself: the
   run ends on transient faults only with the retries exhausted. *)
C8_EveryCallWrapped ==
    /\ direct = {}
    /\ error \notin {"RequestException", "ValueError"}

(* C9: every failure of the pipeline surfaces to the top-level run, which
   logs it and ends with a non-zero exit status; a run that did not complete
   the take-profit submission never ends with exit status 0. *)
C9_FailureExitsNonZero ==
    pc = "exited" =>
        /\ Aborted => (error_logged /\ exit_code # 0)
        /\ "tp_order" \notin completed => exit_code # 0

\* 'buy' and 'sell' in any letter case, spelled out letter by letter
IsBuy(d)  == /\ Len(d) = 3
             /\ d[1] \in {"b", "B"} /\ d[2] \in {"u", "U"} /\ d[3] \in {"y", "Y"}
IsSell(d) == /\ Len(d) = 4
             /\ d[1] \in {"s", "S"} /\ d[2] \in {"e", "E"}
             /\ d[3] \in {"l", "L"} /\ d[4] \in {"l", "L"}

\* control reached the direction branch: sizing raised nothing
ReachedDirectionBranch ==
    /\ "fetch_current_price" \in completed
    /\ pc # "calculate_position_size"
    /\ error \notin {"KeyError", "DivisionByZero"}

(* C10: a direction equal to 'buy' or 'sell' in any letter case is accepted,
   and the entry order is sent with the side BUY or SELL; any other direction
   fails with the invalid-direction error once the direction branch is
   reached, and no order is ever sent for it. *)
C10_DirectionHandling ==
    /\ IsBuy(argv.direction) =>
          /\ error # "InvalidDirection"
          /\ "initial_order" \in submitted => orders["initial_order"].side = BUY
    /\ IsSell(argv.direction) =>
          /\ error # "InvalidDirection"
          /\ "initial_order" \in submitted => orders["initial_order"].side = SELL
    /\ ~(IsBuy(argv.direction) \/ IsSell(argv.direction)) =>
          /\ submitted = {}
          /\ ReachedDirectionBranch => (error = "InvalidDirection" /\ pc = "exited")
    /\ (IsBuy(argv.direction) \/ IsSell(argv.direction)) /\ ReachedDirectionBranch
          /\ tick_size # 0
          => "calculate_position_size" \in completed

\* a mixed-case 'sElL' was accepted and its entry order sent
C10_Witness ==
    /\ argv.direction = <<"s", "E", "l", "L">>
    /\ "initial_order" \in submitted
    /\ orders["initial_order"].side = SELL

----------------------------------------------------------------------------
(* The contents of the three orders *)

BracketLegs == {"stop_order", "tp_order"}

(* C11: in every run that submits orders, the entry is a MARKET order with
   the side of the direction, the full computed quantity and the price the
   venue served; the stop order and the take-profit order have the other
   side, are reduce-only position legs triggered on the INDEX price, carry
   the symbol and the quantity of the entry order, and are triggered at the
   computed stop price and take-profit price respectively. *)
C11_OrderContents ==
    /\ "initial_order" \in submitted =>
          LET entry == orders["initial_order"] IN
          /\ entry.type = "MARKET"
          /\ IsBuy(argv.direction) => entry.side = BUY
          /\ IsSell(argv.direction) => entry.side = SELL
          /\ entry.symbol = argv.symbol
          /\ entry.price = market.lastPrice
          /\ entry.size = position_size
    /\ \A k \in BracketLegs \cap submitted :
          LET entry == orders["initial_order"]
              leg   == orders[k]
          IN
          /\ "initial_order" \in submitted
          /\ {leg.side, entry.side} = {BUY, SELL}
          /\ leg.reduceOnly /\ leg.isPositionTpsl
          /\ leg.triggerPriceType = "INDEX"
          /\ leg.symbol = entry.symbol
          /\ leg.size = entry.size
          /\ leg.triggerPrice = (IF k = "stop_order" THEN sl_price ELSE tp_price)
          /\ leg.type = (IF k = "stop_order" THEN "STOP_MARKET" ELSE "TAKE_PROFIT_MARKET")

\* a sell run submitted its three orders, with distinct trigger prices
C11_Witness ==
    /\ IsSell(argv.direction)
    /\ submitted = OrderKinds
    /\ orders["stop_order"].side = BUY
    /\ orders["stop_order"].triggerPrice > orders["tp_order"].triggerPrice
    /\ orders["tp_order"].triggerPrice > 0

----------------------------------------------------------------------------
(* The arithmetic on its own: the inputs are drawn at the start, and the run
   either applies the quantization to a value and a granularity, or starts at
   the planning step of place_optimal_limit_order with the fetches done *)

MaxValue       == 12
MaxGranularity == 5

PureDirections == {buy, SELL}
PureLeverages  == {1, 10}
PureTpPercents == {1, 5}
PureSlPercents == {2, 150}
PureBalances   == {0, 7, 100, 10000}
PurePrices     == {10, 30, 500000}
PureTicks      == {1, 2, 5}
PureSteps      == {1, 3, 10}

DefaultArgv ==
    [argc |-> ExpectedArgc, parseable |-> TRUE, symbol |-> "BTC-USDT",
     direction |-> buy, leverage |-> 10, tp_percent |-> 5, sl_percent |-> 2]

\* the statements of place_optimal_limit_order before the position sizing
Fetches == {"get_account_v3", "fetch_account_data", "fetch_tick_and_step_size",
            "fetch_current_price"}

\* a value and a granularity to quantize
AtQuantize ==
    /\ pc = "quantize"
    /\ quant \in [value : -MaxValue..MaxValue, granularity : 1..MaxGranularity,
                  result : {0}, applied : {FALSE}]
    /\ argv = DefaultArgv
    /\ market \in [balance : {0}, lastPrice : {10}]
    /\ completed = {}
    /\ account_data = NoneResponse
    /\ tick_size = 0
    /\ step_size = 0
    /\ current_price = 0

\* line 76 is about to run: the balance, the contract and the price were served
AtPlan ==
    /\ pc = "calculate_position_size"
    /\ quant = NoQuant
    /\ argv \in [argc : {ExpectedArgc}, parseable : {TRUE}, symbol : {"BTC-USDT"},
                 direction : PureDirections, leverage : PureLeverages,
                 tp_percent : PureTpPercents, sl_percent : PureSlPercents]
    /\ market \in [balance : PureBalances, lastPrice : PurePrices]
    /\ completed = Fetches
    /\ account_data = Served([availableBalance |-> market.balance])
    /\ tick_size \in PureTicks
    /\ step_size \in PureSteps
    /\ current_price = market.lastPrice

InitPure == (AtQuantize \/ AtPlan) /\ Unstarted

\* (value // granularity) * granularity
ApplyQuantize ==
    /\ pc = "quantize"
    /\ quant' = [quant EXCEPT !.result = quantize(quant.value, quant.granularity),
                              !.applied = TRUE]
    /\ pc' = "quantized"
    /\ UNCHANGED <<argv, market, completed, act, api, venue, fetched, planned, outcome>>

NextPure == ApplyQuantize \/ ComputePlan

SpecPure == InitPure /\ [][NextPure]_vars

(* C12: for every value v >= 0 and granularity g > 0, the quantization
   (v // g) * g is at most v, is an integer multiple of g, exceeds v - g (it
   is the largest multiple of g not exceeding v), and is 0 when v < g. *)
C12_QuantizeDown ==
    (quant.applied /\ quant.value >= 0 /\ quant.granularity > 0) =>
        /\ quant.result <= quant.value
        /\ quant.result % quant.granularity = 0
        /\ quant.result + quant.granularity > quant.value
        /\ quant.value < quant.granularity => quant.result = 0

\* 7 quantized by 3 gave 6, and a value below its granularity gave 0
C12_Witness ==
    /\ quant.applied
    /\ \/ quant.value = 7 /\ quant.granularity = 3 /\ quant.result = 6
       \/ quant.value = 2 /\ quant.granularity = 5 /\ quant.result = 0

\* the plan step ran to its end
Planned == "calculate_position_size" \in completed

\* size * price <= 1000 * amount for a size >= 0 in thousandths, with the
\* product taken on the whole units and on the thousandths of the size apart
AtMostRaw(size, amount, price) ==
    (size \div 1000) * price + (((size % 1000) * price) + 999) \div 1000 <= amount

(* C13: for an available margin >= 0, a leverage > 0, a current price > 0 and
   a step size > 0, calculate_position_size returns the largest multiple of
   the step size that does not exceed (margin * leverage * 100) / price: it
   is a multiple of the step size and >= 0; margin 1000, leverage 10, price
   50000 and step 0.001 give 20. *)
C13_LargestStepMultiple ==
    (/\ Planned
     /\ market.balance >= 0 /\ argv.leverage > 0
     /\ market.lastPrice > 0 /\ step_size > 0) =>
        LET amount == market.balance * argv.leverage * 100 IN
        /\ position_size >= 0
        /\ position_size % step_size = 0
        /\ AtMostRaw(position_size, amount, market.lastPrice)
        /\ ~AtMostRaw(position_size + step_size, amount, market.lastPrice)
        /\ (/\ market.balance = 10000 /\ argv.leverage = 10
            /\ market.lastPrice = 500000 /\ step_size = 1) => position_size = 20000

\* the sizing of the example, and a sizing whose quotient is not a multiple of
\* the step: 0.7 * 1000 / 3.0 = 233.333... on a step of 0.010 gives 233.330
C13_Witness ==
    /\ Planned
    /\ \/ /\ market.balance = 10000 /\ argv.leverage = 10
          /\ market.lastPrice = 500000 /\ step_size = 1
          /\ position_size = 20000
       \/ /\ market.balance = 7 /\ argv.leverage = 10
          /\ market.lastPrice = 30 /\ step_size = 10
          /\ position_size = 233330

\* the inputs of the trigger prices are in the domain the claims name
PositivePriceInputs ==
    /\ IsBuy(argv.direction) \/ IsSell(argv.direction)
    /\ market.lastPrice > 0 /\ argv.tp_percent > 0 /\ argv.sl_percent > 0
    /\ tick_size > 0

(* C14, as stated: for a price > 0, percentages > 0 and a tick size > 0, a
   buy has its take-profit price above and its stop price below the current
   price, and a sell has its take-profit price below and its stop price above
   the current price. *)
C14_CorrectSide ==
    (Planned /\ PositivePriceInputs) =>
        /\ IsBuy(argv.direction) =>
              tp_price > market.lastPrice /\ sl_price < market.lastPrice
        /\ IsSell(argv.direction) =>
              tp_price < market.lastPrice /\ sl_price > market.lastPrice

(* C14, amended: the leg below the price (the stop of a buy, the take-profit
   of a sell) is strictly below the current price; the leg above the price
   (the take-profit of a buy, the stop of a sell) is above the current price
   less one tick, and strictly above the current price whenever its offset
   price * percent / 100 is at least one tick. *)
C14_SideUpToOneTick ==
    (Planned /\ PositivePriceInputs) =>
        LET price == market.lastPrice
            below == IF IsBuy(argv.direction) THEN sl_price ELSE tp_price
            above == IF IsBuy(argv.direction) THEN tp_price ELSE sl_price
            pct   == IF IsBuy(argv.direction) THEN argv.tp_percent ELSE argv.sl_percent
        IN
        /\ below < price
        /\ above > price - tick_size
        /\ price * pct >= 100 * tick_size => above > price

\* a buy at 1.0 with a take-profit of 5% on a tick of 0.5: the take-profit
\* price 1.05 is quantized to 1.0, the current price itself
C14_Witness ==
    /\ Planned
    /\ IsBuy(argv.direction)
    /\ market.lastPrice = 10 /\ argv.tp_percent = 5 /\ tick_size = 5
    /\ tp_price = market.lastPrice

\* the trigger prices before quantization, in hundredths of a tenth
raw_tp == IF IsBuy(argv.direction) THEN market.lastPrice * (100 + argv.tp_percent)
          ELSE market.lastPrice * (100 - argv.tp_percent)
raw_sl == IF IsBuy(argv.direction) THEN market.lastPrice * (100 - argv.sl_percent)
          ELSE market.lastPrice * (100 + argv.sl_percent)

\* q is the largest multiple of the tick that does not exceed raw / 100
LargestTickMultiple(q, raw) ==
    q % tick_size = 0 /\ 100 * q <= raw /\ raw < 100 * (q + tick_size)

\* q is the smallest multiple of the tick that is not below raw / 100
SmallestTickMultiple(q, raw) ==
    q % tick_size = 0 /\ 100 * q >= raw /\ raw > 100 * (q - tick_size)

DirectionAndTick ==
    /\ IsBuy(argv.direction) \/ IsSell(argv.direction)
    /\ tick_size > 0

(* C15, as stated: the trigger prices are the percentage offsets of the
   current price (tp above and sl below for a buy, swapped for a sell), each
   quantized down to the largest multiple of the tick size not exceeding it. *)
C15_QuantizedDownOffsets ==
    (Planned /\ DirectionAndTick) =>
        /\ LargestTickMultiple(tp_price, raw_tp)
        /\ LargestTickMultiple(sl_price, raw_sl)

(* C15, amended: the trigger prices are multiples of the tick size obtained
   from the percentage offsets of the current price by a quotient that
   truncates toward zero: the largest multiple of the tick not exceeding the
   offset when the offset is >= 0, the smallest multiple of the tick not
   below it when the offset is negative; Buy, price 50000, tp 5, sl 2 and
   tick 0.5 give 52500.0 and 49000.0. *)
C15_TruncatedOffsets ==
    (Planned /\ DirectionAndTick) =>
        /\ IF raw_tp >= 0 THEN LargestTickMultiple(tp_price, raw_tp)
           ELSE SmallestTickMultiple(tp_price, raw_tp)
        /\ IF raw_sl >= 0 THEN LargestTickMultiple(sl_price, raw_sl)
           ELSE SmallestTickMultiple(sl_price, raw_sl)
        /\ (/\ IsBuy(argv.direction) /\ market.lastPrice = 500000
            /\ argv.tp_percent = 5 /\ argv.sl_percent = 2 /\ tick_size = 5) =>
              tp_price = 525000 /\ sl_price = 490000

\* a buy at 1.0 with a stop of 150% on a tick of 0.2: the offset -0.5 became
\* -0.4, above it
C15_Witness ==
    /\ Planned
    /\ IsBuy(argv.direction)
    /\ market.lastPrice = 10 /\ argv.sl_percent = 150 /\ tick_size = 2
    /\ raw_sl = -500 /\ sl_price = -4

----------------------------------------------------------------------------
(* Runs on inputs at the edge of the domain: a leverage that is not positive,
   a price that is not positive, a margin too small for one step *)

EdgeLeverages == {10, 0, -1}
EdgeMarkets ==
    { [balance |-> 1000, lastPrice |-> 50000],
      [balance |-> 1,    lastPrice |-> 2000000],
      [balance |-> 1000, lastPrice |-> -50000],
      [balance |-> 1000, lastPrice |-> 0] }

InitEdge ==
    /\ argv \in [argc : {ExpectedArgc}, parseable : {TRUE}, symbol : {"BTC-USDT"},
                 direction : {buy}, leverage : EdgeLeverages,
                 tp_percent : TpPercents, sl_percent : SlPercents]
    /\ market \in EdgeMarkets
    /\ AtMain

SpecEdge == InitEdge /\ [][Next]_vars

\* control went past the position sizing and the direction branch
PastPlan == "fetch_current_price" \in completed /\ pc # "calculate_position_size"

(* C16: once the balance was served, a leverage that is not positive makes
   the position sizing fail with the invalid-leverage error, and a fetched
   price that is not positive makes it fail with the invalid-price error; in
   both cases no order is submitted. *)
C16_InvalidInputsRejected ==
    /\ argv.leverage <= 0 =>
          /\ submitted = {}
          /\ (PastPlan /\ HasData(account_data)) => error = "InvalidLeverage"
    /\ (market.lastPrice <= 0 /\ argv.leverage > 0) =>
          /\ submitted = {}
          /\ (PastPlan /\ HasData(account_data)) => error = "InvalidPrice"

\* orders of a negative size went out for a leverage of -1
C16_NegativeSizeSubmitted ==
    /\ argv.leverage < 0
    /\ submitted = OrderKinds
    /\ orders["initial_order"].size < 0

\* the margin times the leverage buys less than one step at the price served
MarginBelowOneStep ==
    /\ market.balance >= 0 /\ argv.leverage >= 0 /\ market.lastPrice > 0
    /\ step_size > 0
    /\ ~AtMostRaw(step_size, market.balance * argv.leverage * 100, market.lastPrice)

(* C17: a computed position size of 0 is not an error and is not suppressed:
   when the margin buys less than one step, the planning step completes with
   the size 0, every order submitted carries the quantity 0, the run aborts
   only on a failed order submission, and a run that ends without an error
   has submitted the entry, the stop and the take-profit order. *)
C17_ZeroSizeSubmitted ==
    (/\ MarginBelowOneStep /\ PastPlan /\ HasData(account_data)
     /\ "availableBalance" \in DOMAIN account_data.data
     /\ IsBuy(argv.direction) \/ IsSell(argv.direction)
     /\ tick_size > 0) =>
        /\ Planned
        /\ position_size = 0
        /\ \A k \in submitted : orders[k].size = 0
        /\ Aborted => (api.func \in OrderKinds /\ ~Succeeded(api.last))
        /\ (pc = "exited" /\ ~Aborted) => submitted = OrderKinds

\* a margin of 0.1 at 200000.0 gave the size 0, and the three orders went out
\* with the quantity 0
C17_Witness ==
    /\ MarginBelowOneStep
    /\ argv.leverage = 10
    /\ pc = "exited" /\ ~Aborted
    /\ submitted = OrderKinds
    /\ \A k \in OrderKinds : orders[k].size = 0

----------------------------------------------------------------------------
(* The command line, the backoff waits and termination *)

(* C18: a command line with a number of arguments other than five (argv of a
   length other than 6, the script name included) ends the run with a
   non-zero status, and no remote call - account, configuration, ticker or
   order - is made before it exits. *)
C18_WrongArgCount ==
    argv.argc # 6 =>
        /\ pc \in {"main", "exited"}
        /\ called = {} /\ direct = {} /\ submitted = {}
        /\ api.calls = 0
        /\ pc = "exited" => exit_code > 0

\* a run with four arguments, and one with six, exited with status 1 and
\* called nothing
C18_Witness ==
    /\ argv.argc \in {5, 7}
    /\ pc = "exited" /\ exit_code = 1
    /\ called = {}

\* the activation of api_call_with_retry for the current call has ended
Ended == api.func = act.func /\ act.status \in {"returned", "exhausted", "raised"}

(* C19: the backoff waits happen only between attempts: the wait after the
   failed attempt i is 0.5 s * 2^i and is followed by a further attempt, so
   a call that ended after n attempts incurred exactly n - 1 waits. *)
C19_WaitsOnlyBetweenAttempts ==
    /\ InWrapper =>
          \A i \in 1..Len(act.waits) : act.waits[i] = 500 * 2^(i - 1)
    /\ Ended => Len(act.waits) = api.calls - 1

\* five attempts failed transiently: five waits, the last one of 8 s, and no
\* attempt after it
C19_WaitBeforeGivingUp ==
    /\ Ended /\ act.status = "exhausted"
    /\ api.calls = 5 /\ api.transient = 5
    /\ Len(act.waits) = 5 /\ act.waits[5] = 8000
    /\ pc = "exited"

InitLive ==
    /\ argv \in [argc : {ExpectedArgc}, parseable : {TRUE}, symbol : {"BTC-USDT"},
                 direction : {buy, <<"s", "h", "o", "r", "t">>},
                 leverage : Leverages,
                 tp_percent : TpPercents, sl_percent : SlPercents]
    /\ market \in Markets
    /\ AtMain

\* the process keeps running its statements until it exits
SpecLive == InitLive /\ [][Next]_vars /\ WF_vars(Next)

(* C20: every run of the pipeline terminates, whatever the remote calls do,
   either with the take-profit order submitted or aborted by an error, and
   no remote operation is attempted more than 5 times within the run. *)
C20_TerminatesBounded ==
    /\ <>(pc = "exited")
    /\ [](pc = "exited" => (("tp_order" \in completed /\ "tp_order" \in submitted)
                            \/ Aborted))
    /\ [](api.calls <= 5)

\* a run ended because an order submission failed five times
C20_Witness ==
    /\ pc = "exited" /\ Aborted
    /\ api.func \in OrderKinds
    /\ api.calls = 5

====
